---- MODULE Spec2Model ----
(***************************************************************************)
(* Model of the Python SDK runtime of agentic-workflow-architecture:       *)
(* awa/runtime/workflow_engine.py (WorkflowEngine), awa/runtime/token.py   *)
(* (Token), awa/runtime/decision_evaluator.py, awa/runtime/actors/*.py,    *)
(* awa/runtime/human_task_queue.py and awa/validator/__init__.py.          *)
(*                                                                         *)
(* Identities (uuid4 in the code) are small strings / integers.  Python    *)
(* values held in data maps are records [t |-> type tag, v |-> payload],   *)
(* the payload being the text Python's str() gives for the value.  A       *)
(* Python exception is an outcome recorded in lastCall.                    *)
(***************************************************************************)
EXTENDS Integers, Sequences, FiniteSets, TLC

\* ------------------------------------------------------------------ bounds
MaxChain == 3      \* longest activity chain among the workflows explored
MaxRuns == 2       \* run() invocations per engine (one token each)
MaxApiCalls == 1   \* direct Token method calls made by the engine's caller
MaxSteps == 4      \* supersteps followed inside one run() before giving up
MaxRules == 2      \* rules of a decision table evaluated on its own
MaxGrants == 2     \* access rights carried by one context
MaxTokenOps == 2   \* method calls made on a Token used on its own
MaxDays == 1       \* whole days in a duration handed to format_iso_duration
MaxActivities == 3 \* activities of the workflows the start activity is sought in
MaxEntries == 2    \* input entries of a rule evaluated on its own
MaxColumns == 2    \* input columns of the table such a rule is evaluated against
MaxWaitCalls == 2  \* Token method calls of a caller that parks and stamps a token

\* --------------------------------------------------------------- constants
None == "None"

\* awa/types ActorType
ActorTypes == {"human", "ai_agent", "robot", "application"}

\* awa/runtime/token.py TokenStatus
ACTIVE == "active"
COMPLETED == "completed"
FAILED == "failed"
WAITING == "waiting"
CANCELLED == "cancelled"
TokenStatus == {ACTIVE, COMPLETED, FAILED, WAITING, CANCELLED}

\* awa/runtime/workflow_engine.py EngineStatus
EngineStatus == {"idle", "running", "paused", "completed", "failed", "waiting_human"}

\* ------------------------------------------------------------ Python values
VStr(s) == [t |-> "str", v |-> s]
VBool(b) == [t |-> "bool", v |-> IF b THEN "True" ELSE "False"]
VNone == [t |-> "none", v |-> "None"]

\* Python truthiness of a value: None, False and "" are falsy.
Truthy(x) == ~(x.t = "none" \/ (x.t = "bool" /\ x.v = "False") \/ (x.t = "str" /\ x.v = ""))

\* str(x): the payload is kept as its str() text, the type tag is dropped.
Str(x) == x.v

EmptyDict == [k \in {} |-> VNone]

\* dict.get(key) with default None
DictGet(d, k) == IF k \in DOMAIN d THEN d[k] ELSE VNone

\* dict.update(other): last writer wins
DictUpdate(d, other) ==
    [k \in (DOMAIN d) \cup (DOMAIN other) |-> IF k \in DOMAIN other THEN other[k] ELSE d[k]]

\* d[key] = value
DictSet(d, k, val) == [x \in (DOMAIN d) \cup {k} |-> IF x = k THEN val ELSE d[x]]

\* ------------------------------------------------------- workflow documents
\* awa/types Activity: id, name, actor_type, analytics.value_added ("unset" when
\* the activity has no analytics object, "none" when it has one that declares no
\* value, else "True" or "False"), context_bindings (context ids).
Act(id, actor, va, bindings) ==
    [id |-> id, name |-> id, actor_type |-> actor, value_added |-> va, context_bindings |-> bindings]

\* awa/types Edge
Edge(id, src, tgt) == [id |-> id, source_id |-> src, target_id |-> tgt]

\* awa/types DecisionRule
Rule(entries, edge) == [input_entries |-> entries, output_edge_id |-> edge]

\* awa/types DecisionNode with its DecisionTable (input column names, rules)
Decision(id, inputs, rules, dflt) ==
    [id |-> id, inputs |-> inputs, rules |-> rules, default_output_edge_id |-> dflt]

\* awa/types Workflow
Wf(name, acts, edges, decisions, events, contexts) ==
    [name |-> name, activities |-> acts, edges |-> edges, decision_nodes |-> decisions,
     events |-> events, contexts |-> contexts]

ActId(i) == <<"a1", "a2", "a3", "a4", "a5">>[i]
EdgeId(i) == <<"e1", "e2", "e3", "e4", "e5">>[i]

\* N activities chained by N-1 edges, no decision node; the first activity is
\* performed by `first`, the last by `last`, the others by the application actor.
ChainWorkflow(n, first, last) ==
    Wf("chain",
       [i \in 1..n |-> Act(ActId(i), IF i = 1 THEN first ELSE IF i = n THEN last ELSE "application",
                           "unset", <<>>)],
       [i \in 1..(n - 1) |-> Edge(EdgeId(i), ActId(i), ActId(i + 1))],
       <<>>, {}, {})

\* tests/test_decision_execution.py create_decision_workflow:
\* Start -> Decision(choice) -> {PathA | PathB}, with a default edge `dflt`.
DecisionWorkflow(dflt) ==
    Wf("decision",
       <<Act("a1", "application", "unset", <<>>), Act("a2", "application", "unset", <<>>),
         Act("a3", "application", "unset", <<>>)>>,
       <<Edge("e1", "a1", "d1"), Edge("e2", "d1", "a2"), Edge("e3", "d1", "a3")>>,
       <<Decision("d1", <<"choice">>, <<Rule(<<"A">>, "e2"), Rule(<<"B">>, "e3")>>, dflt)>>,
       {}, {})

\* Every activity is the target of an edge.
CycleWorkflow ==
    Wf("cycle",
       <<Act("a1", "application", "unset", <<>>), Act("a2", "application", "unset", <<>>)>>,
       <<Edge("e1", "a1", "a2"), Edge("e2", "a2", "a1")>>,
       <<>>, {}, {})

\* An edge whose target is no declared node.
DanglingEdgeWorkflow ==
    Wf("dangling_edge",
       <<Act("a1", "application", "unset", <<>>)>>,
       <<Edge("e1", "a1", "x9")>>,
       <<>>, {}, {})

\* A context binding that references an undeclared context.
DanglingBindingWorkflow ==
    Wf("dangling_binding",
       <<Act("a1", "application", "unset", <<"c9">>)>>,
       <<>>, <<>>, {}, {"c1"})

\* An edge into an event node: valid for the validator, no node for the engine.
EventWorkflow ==
    Wf("event",
       <<Act("a1", "application", "unset", <<"c1">>)>>,
       <<Edge("e1", "a1", "ev1")>>,
       <<>>, {"ev1"}, {"c1"})

Workflows ==
    {ChainWorkflow(n, "application", "application") : n \in 0..MaxChain}
    \cup {ChainWorkflow(1, "human", "application"), ChainWorkflow(2, "human", "application"),
          ChainWorkflow(2, "application", "human"),
          ChainWorkflow(1, "ai_agent", "application"), ChainWorkflow(2, "robot", "application")}
    \cup {DecisionWorkflow(d) : d \in {None, "e3", "e9"}}
    \cup {CycleWorkflow, DanglingEdgeWorkflow, DanglingBindingWorkflow, EventWorkflow}

\* Node identities a caller may move a token to: the declared nodes other than
\* the first activity, and one undeclared identity.
NodeIds(w) ==
    {w.activities[i].id : i \in (DOMAIN w.activities) \cap {2}}
    \cup {w.decision_nodes[i].id : i \in DOMAIN w.decision_nodes}
    \cup {"x9"}

\* -------------------------------------------------------------------- Token
\* Token._add_to_history: the entry appended to the history (metrics is never
\* passed by any caller, so it is always None).
HistoryEntry(node_id, action) == [node_id |-> node_id, action |-> action, metrics |-> None]

\* Token.__init__ recording its first entry as "entered".
NewTokenEntered(id, activity_id, initial_data) ==
    [id |-> id, activity_id |-> activity_id, status |-> ACTIVE,
     context_data |-> initial_data,
     history |-> <<HistoryEntry(activity_id, "entered")>>]

\* Token.__init__: status ACTIVE, a copy of the initial data, one "created" entry.
NewToken(id, activity_id, initial_data) ==
    [id |-> id, activity_id |-> activity_id, status |-> ACTIVE,
     context_data |-> initial_data,
     history |-> <<HistoryEntry(activity_id, "created")>>]

\* Token.move overwriting the last entry instead of appending "exited".
TokenMoveOverwriting(tok, next_activity_id) ==
    [tok EXCEPT !.history = SubSeq(tok.history, 1, Len(tok.history) - 1)
                            \o <<HistoryEntry(tok.activity_id, "exited"),
                                 HistoryEntry(next_activity_id, "entered")>>,
                !.activity_id = next_activity_id,
                !.status = ACTIVE]

\* Token.move(next_activity_id)
TokenMove(tok, next_activity_id) ==
    [tok EXCEPT !.history = tok.history \o <<HistoryEntry(tok.activity_id, "exited"),
                                             HistoryEntry(next_activity_id, "entered")>>,
                !.activity_id = next_activity_id,
                !.status = ACTIVE]

\* Token.update_status(status)
TokenUpdateStatus(tok, status) ==
    [tok EXCEPT !.status = status,
                !.history = tok.history \o <<HistoryEntry(tok.activity_id, "status_change:" \o status)>>]

\* Token.set_data(key, value)
TokenSetData(tok, key, val) == [tok EXCEPT !.context_data = DictSet(tok.context_data, key, val)]

\* Token.get_data(key)
TokenGetData(tok, key) == DictGet(tok.context_data, key)

\* Token.merge_data(data)
TokenMergeData(tok, data) == [tok EXCEPT !.context_data = DictUpdate(tok.context_data, data)]

\* The parameters Token.move and Token.update_status declare besides self.  A
\* call that passes a keyword argument outside them raises TypeError before the
\* method body runs.
MoveParams == {"next_activity_id"}
UpdateStatusParams == {"status"}
CallAccepted(params, passed) == passed \subseteq params

\* ---------------------------------------------------------------- validator
\* validate_workflow_integrity: the number of invalid references found.
IntegrityErrors(w) ==
    LET node_ids == {w.activities[i].id : i \in DOMAIN w.activities}
                    \cup w.events
                    \cup {w.decision_nodes[i].id : i \in DOMAIN w.decision_nodes}
        src_errs == {i \in DOMAIN w.edges : w.edges[i].source_id \notin node_ids}
        tgt_errs == {i \in DOMAIN w.edges : w.edges[i].target_id \notin node_ids}
        bind_errs == UNION {{<<i, j>> : j \in {k \in DOMAIN w.activities[i].context_bindings :
                                                  w.activities[i].context_bindings[k] \notin w.contexts}} :
                            i \in DOMAIN w.activities}
    IN Cardinality(src_errs) + Cardinality(tgt_errs) + Cardinality(bind_errs)

\* validate_workflow_integrity returns ValidationResult(valid, errors)
ValidateWorkflowIntegrity(w) == [valid |-> IntegrityErrors(w) = 0, errors |-> IntegrityErrors(w)]

\* bool(ValidationResult(...)): a dataclass instance defines neither __bool__
\* nor __len__, so it is true whatever its `valid` field holds.
ResultTruthy(res) == TRUE

\* WorkflowEngine.__init__, lines 92-94: `if not validate_workflow_integrity(workflow)`
ConstructorRejects(w) == ~ResultTruthy(ValidateWorkflowIntegrity(w))

\* -------------------------------------------------------- decision evaluator
Min(a, b) == IF a < b THEN a ELSE b

\* _evaluate_rule refusing a rule that has more entries than the table has columns.
EvaluateRuleStrict(rule, node, context_data) ==
    /\ Len(rule.input_entries) <= Len(node.inputs)
    /\ \A i \in 1..Len(rule.input_entries) :
          Str(DictGet(context_data, node.inputs[i])) = rule.input_entries[i]

\* DecisionEvaluator._evaluate_rule
EvaluateRule(rule, node, context_data) ==
    \A i \in 1..Min(Len(rule.input_entries), Len(node.inputs)) :
        Str(DictGet(context_data, node.inputs[i])) = rule.input_entries[i]

\* evaluate returning the edge of the last matching rule instead of the first.
EvaluateLastMatch(node, context_data) ==
    LET hits == {i \in DOMAIN node.rules : EvaluateRule(node.rules[i], node, context_data)}
    IN IF hits # {}
       THEN node.rules[CHOOSE i \in hits : \A j \in hits : j <= i].output_edge_id
       ELSE node.default_output_edge_id

\* DecisionEvaluator.evaluate: first matching rule's edge, else the default.
Evaluate(node, context_data) ==
    LET hits == {i \in DOMAIN node.rules : EvaluateRule(node.rules[i], node, context_data)}
    IN IF hits # {}
       THEN node.rules[CHOOSE i \in hits : \A j \in hits : i <= j].output_edge_id
       ELSE node.default_output_edge_id

\* ------------------------------------------------------------------- actors
TaskId(n) == <<"h1", "h2", "h3", "h4", "h5", "h6", "h7", "h8", "h9", "h10", "h11", "h12">>[n]

\* HumanTask.__init__ as called by HumanAgent.execute with data=token.context_data:
\* `self.data = data or {}` keeps the token's own dict when it is non-empty
\* (shares = the token's id) and a fresh dict otherwise (shares = 0).
NewHumanTask(n, activity_id, tok) ==
    [id |-> TaskId(n), activity_id |-> activity_id, status |-> "pending",
     shares |-> IF DOMAIN tok.context_data # {} THEN tok.id ELSE 0,
     data |-> EmptyDict]

\* SoftwareAgent.execute
SoftwareResult(activity) ==
    [k \in {"_actor", "_activity", "_completed"} |->
        CASE k = "_actor" -> VStr("software_agent")
          [] k = "_activity" -> VStr(activity.name)
          [] OTHER -> VBool(TRUE)]

\* AIAgent.execute: the simulated marker is set only without a credential.
AIResult(activity, has_key) ==
    [k \in {"_actor", "_activity", "_completed"} \cup (IF has_key THEN {} ELSE {"_simulated"}) |->
        CASE k = "_actor" -> VStr("ai_agent")
          [] k = "_activity" -> VStr(activity.name)
          [] OTHER -> VBool(TRUE)]

\* RobotAgent.execute
RobotResult(activity) ==
    [k \in {"_actor", "_activity", "_simulated", "_completed"} |->
        CASE k = "_actor" -> VStr("robot_agent")
          [] k = "_activity" -> VStr(activity.name)
          [] OTHER -> VBool(TRUE)]

\* HumanAgent.execute: the result names the task and is marked completed; it
\* carries no "_requires_human_action" entry.
HumanResult(activity, task) ==
    [k \in {"_actor", "_activity", "_human_task_id", "_completed"} |->
        CASE k = "_actor" -> VStr("human_agent")
          [] k = "_activity" -> VStr(activity.name)
          [] k = "_human_task_id" -> VStr(task.id)
          [] OTHER -> VBool(TRUE)]

\* WorkflowEngine._execute_activity: dispatch on the activity's actor kind.
\* `faulty` are the actor kinds whose implementation raises in execute.
\* Gives [raised, result, tasks].
ExecuteActivity(activity, tok, tasks, has_key, faulty) ==
    IF activity.actor_type \in faulty
    THEN [raised |-> TRUE, result |-> EmptyDict, tasks |-> tasks]
    ELSE CASE activity.actor_type = "application" ->
                [raised |-> FALSE, result |-> SoftwareResult(activity), tasks |-> tasks]
           [] activity.actor_type = "ai_agent" ->
                [raised |-> FALSE, result |-> AIResult(activity, has_key), tasks |-> tasks]
           [] activity.actor_type = "robot" ->
                [raised |-> FALSE, result |-> RobotResult(activity), tasks |-> tasks]
           [] activity.actor_type = "human" ->
                LET task == NewHumanTask(Len(tasks) + 1, activity.id, tok)
                IN [raised |-> FALSE, result |-> HumanResult(activity, task),
                    tasks |-> Append(tasks, task)]
           [] OTHER ->
                [raised |-> FALSE, result |-> [k \in {"_completed"} |-> VBool(TRUE)], tasks |-> tasks]

\* ------------------------------------------------------------------- engine
FirstIndex(S) == CHOOSE i \in S : \A j \in S : i <= j
LastIndex(S) == CHOOSE i \in S : \A j \in S : j <= i

\* WorkflowEngine._find_start_activity: the id of the first activity that is
\* the target of no edge, else of the first activity, else None.
FindStartActivity(w) ==
    LET target_ids == {w.edges[i].target_id : i \in DOMAIN w.edges}
        free == {i \in DOMAIN w.activities : w.activities[i].id \notin target_ids}
    IN IF free # {} THEN w.activities[FirstIndex(free)].id
       ELSE IF Len(w.activities) > 0 THEN w.activities[1].id
       ELSE None

\* self._activities_by_id.get(node_id): index of the activity, 0 when absent
\* (a dict comprehension keeps the last activity of an id).
ActivityIndex(w, node_id) ==
    LET hits == {i \in DOMAIN w.activities : w.activities[i].id = node_id}
    IN IF hits = {} THEN 0 ELSE LastIndex(hits)

\* self._decision_nodes_by_id.get(node_id)
DecisionIndex(w, node_id) ==
    LET hits == {i \in DOMAIN w.decision_nodes : w.decision_nodes[i].id = node_id}
    IN IF hits = {} THEN 0 ELSE LastIndex(hits)

\* WorkflowEngine._find_next_node: target of the first edge leaving source_id.
FindNextNode(w, source_id) ==
    LET hits == {i \in DOMAIN w.edges : w.edges[i].source_id = source_id}
    IN IF hits = {} THEN None ELSE w.edges[FirstIndex(hits)].target_id

\* WorkflowEngine._find_target_by_edge
FindTargetByEdge(w, edge_id) ==
    LET hits == {i \in DOMAIN w.edges : w.edges[i].id = edge_id}
    IN IF hits = {} THEN None ELSE w.edges[FirstIndex(hits)].target_id

\* WorkflowEngine._has_active_tokens
HasActiveTokens(toks) == \E i \in DOMAIN toks : toks[i].status = ACTIVE

\* _execute_step, line 195: the value_added of the step analytics,
\* `getattr(activity.analytics, "value_added", True) if activity.analytics else True`.
\* An analytics object is truthy and has the attribute, so its value is taken
\* as it is, None included.
StepValueAdded(activity) ==
    CASE activity.value_added = "unset" -> VBool(TRUE)
      [] activity.value_added = "none" -> VNone
      [] OTHER -> [t |-> "bool", v |-> activity.value_added]

\* The arguments the engine passes where it hands step analytics to the token
\* (the decision and unknown-node branches pass no analytics).
ActivityMoveArgs == {"next_activity_id", "analytics"}     \* line 205
AnalyticsStatusArgs == {"status", "analytics"}            \* lines 199, 207, 217, 292

\* _execute_step, lines 209-219: the except clause of the activity branch.
\* Gives [tok, raised]: raised when the handler's own call raises.
ActivityExcept(tok) ==
    IF CallAccepted(UpdateStatusParams, AnalyticsStatusArgs)
    THEN [tok |-> TokenUpdateStatus(tok, FAILED), raised |-> FALSE]
    ELSE [tok |-> tok, raised |-> TRUE]

\* _execute_step, lines 176-220: one token at an activity node. The text
\* stored under "_waiting_since" is one end_time.isoformat() gives.
\* Gives [tok, tasks, raised].
StepActivity(w, tok, activity, tasks, has_key, faulty) ==
    LET ex == ExecuteActivity(activity, tok, tasks, has_key, faulty)
        merged == TokenMergeData(tok, ex.result)
        next_node == FindNextNode(w, activity.id)
        handled(t) == [tok |-> ActivityExcept(t).tok, tasks |-> ex.tasks,
                       raised |-> ActivityExcept(t).raised]
        done(t) == [tok |-> t, tasks |-> ex.tasks, raised |-> FALSE]
    IN IF ex.raised THEN handled(tok)
       ELSE IF Truthy(DictGet(ex.result, "_requires_human_action"))
       THEN IF CallAccepted(UpdateStatusParams, AnalyticsStatusArgs)
            THEN done(TokenSetData(TokenUpdateStatus(merged, WAITING), "_waiting_since",
                                  VStr("2024-01-01T10:00:00.123456")))
            ELSE handled(merged)
       ELSE IF next_node # None
       THEN IF CallAccepted(MoveParams, ActivityMoveArgs)
            THEN done(TokenMove(merged, next_node))
            ELSE handled(merged)
       ELSE IF CallAccepted(UpdateStatusParams, AnalyticsStatusArgs)
            THEN done(TokenUpdateStatus(merged, COMPLETED))
            ELSE handled(merged)

\* _execute_step, lines 223-241: one token at a decision node.
StepDecision(w, tok, decision) ==
    LET edge_id == Evaluate(decision, tok.context_data)
        next_node == FindTargetByEdge(w, edge_id)
    IN IF edge_id # None /\ next_node # None
       THEN TokenMove(tok, next_node)
       ELSE TokenUpdateStatus(tok, FAILED)

\* _execute_step, body of the loop for one token. Gives [tok, tasks, raised].
StepToken(w, tok, tasks, has_key, faulty) ==
    LET ai == ActivityIndex(w, tok.activity_id)
        di == DecisionIndex(w, tok.activity_id)
    IN IF ai # 0 THEN StepActivity(w, tok, w.activities[ai], tasks, has_key, faulty)
       ELSE IF di # 0
       THEN [tok |-> StepDecision(w, tok, w.decision_nodes[di]), tasks |-> tasks, raised |-> FALSE]
       ELSE [tok |-> TokenUpdateStatus(tok, FAILED), tasks |-> tasks, raised |-> FALSE]

\* _execute_step: the tokens ACTIVE when the step starts are stepped in
\* insertion order; an exception leaving a token's step ends the step.
RECURSIVE StepOver(_, _, _, _, _, _)
StepOver(w, toks, tasks, order, has_key, faulty) ==
    IF order = <<>> THEN [tokens |-> toks, tasks |-> tasks, raised |-> FALSE]
    ELSE LET i == Head(order)
             r == StepToken(w, toks[i], tasks, has_key, faulty)
             toks2 == [toks EXCEPT ![i] = r.tok]
         IN IF r.raised THEN [tokens |-> toks2, tasks |-> r.tasks, raised |-> TRUE]
            ELSE StepOver(w, toks2, r.tasks, Tail(order), has_key, faulty)

RECURSIVE Ascending(_, _, _)
Ascending(S, lo, hi) ==
    IF lo > hi THEN <<>>
    ELSE IF lo \in S THEN <<lo>> \o Ascending(S, lo + 1, hi) ELSE Ascending(S, lo + 1, hi)

\* _execute_step with a retry: FAILED tokens are made ACTIVE again and stepped.
ExecuteStepRetrying(w, toks, tasks, has_key, faulty) ==
    LET retried == [i \in DOMAIN toks |->
                       IF toks[i].status = FAILED THEN TokenUpdateStatus(toks[i], ACTIVE)
                       ELSE toks[i]]
    IN StepOver(w, retried, tasks,
                Ascending({i \in DOMAIN toks : retried[i].status = ACTIVE}, 1, Len(toks)),
                has_key, faulty)

\* _execute_step, lines 163-170: only the tokens whose status is ACTIVE are stepped.
ExecuteStep(w, toks, tasks, has_key, faulty) ==
    StepOver(w, toks, tasks,
             Ascending({i \in DOMAIN toks : toks[i].status = ACTIVE}, 1, Len(toks)),
             has_key, faulty)

\* run, lines 129-144: the loop `while self._has_active_tokens(): self._execute_step()`.
\* Gives [tokens, tasks, outcome]: "returned", "raised", or "looping" when
\* tokens are still ACTIVE after MaxSteps supersteps.
RECURSIVE RunLoop(_, _, _, _, _, _)
RunLoop(w, toks, tasks, has_key, faulty, fuel) ==
    IF ~HasActiveTokens(toks) THEN [tokens |-> toks, tasks |-> tasks, outcome |-> "returned"]
    ELSE IF fuel = 0 THEN [tokens |-> toks, tasks |-> tasks, outcome |-> "looping"]
    ELSE LET r == ExecuteStep(w, toks, tasks, has_key, faulty)
         IN IF r.raised THEN [tokens |-> r.tokens, tasks |-> r.tasks, outcome |-> "raised"]
            ELSE RunLoop(w, r.tokens, r.tasks, has_key, faulty, fuel - 1)

\* -------------------------------------------------------------------- state
VARIABLES
    workflow,      \* the Workflow document handed to the constructor
    hasApiKey,     \* whether a Gemini credential is configured
    faultyActors,  \* actor kinds whose implementation raises in execute
    phase,         \* "new" before __init__, then "ready" or "rejected"
    status,        \* WorkflowEngine._status
    startActivity, \* id of WorkflowEngine._start_activity, or None
    tokens,        \* WorkflowEngine._tokens, in insertion order
    contextData,   \* ContextManager._data
    humanTasks,    \* the process-wide HumanTaskQueue, in insertion order
    apiCalls,      \* Token method calls made so far by the engine's caller
    lastCall,      \* the last operation called and how it ended
    freeToken,     \* a Token object used on its own, outside any engine
    createdOn,     \* the activity_id that Token was constructed with
    stamps,        \* the "timestamp" of each entry of that Token's history
    contexts,      \* ContextManager._contexts of a manager used on its own
    store          \* ContextManager._data of that manager

vars == <<workflow, hasApiKey, faultyActors, phase, status, startActivity, tokens,
          contextData, humanTasks, apiCalls, lastCall,
          freeToken, createdOn, stamps, contexts, store>>

env == <<workflow, hasApiKey, faultyActors>>

\* The objects used on their own: untouched by every operation of the engine.
unit == <<freeToken, createdOn, stamps, contexts, store>>

\* No object has been constructed outside the engine.
NoToken == [id |-> 0, activity_id |-> None, status |-> None,
            context_data |-> EmptyDict, history |-> <<>>]
UnitIdle ==
    /\ freeToken = NoToken
    /\ createdOn = None
    /\ stamps = <<>>
    /\ contexts = <<>>
    /\ store = EmptyDict

Call(op, arg, outcome, error, value) ==
    [op |-> op, arg |-> arg, outcome |-> outcome, error |-> error, value |-> value]

\* Inputs of run(initial_data): the decision table's column where the workflow
\* has a decision node, an unrelated key elsewhere.
InitialData(w) ==
    IF w.decision_nodes # <<>>
    THEN {[k \in {"choice"} |-> VStr("A")],
          [k \in {"choice"} |-> VStr("B")],
          [k \in {"choice"} |-> VStr("C")]}
    ELSE {EmptyDict, [k \in {"input_key"} |-> VStr("input_value")]}

\* Inputs of resume_token(token_id, output)
ResumeOutputs == {[k \in {"approved"} |-> VBool(TRUE)]}

\* Inputs of Token.set_data and Token.merge_data made by the caller; the
\* timestamp is a text datetime.now().isoformat() gives.
CallerSets == {[k \in {"_waiting_since"} |-> VStr("2024-01-01T10:00:00.123456")]}
CallerMerges == {[k \in {"choice"} |-> VStr("A")]}

\* Actor kinds the activities of a workflow use
ActorsUsed(w) == {w.activities[i].actor_type : i \in DOMAIN w.activities}

\* Deployment choices that some activity of the workflow can observe: the
\* credential is read by the AI actor only; the failing integration is the robot's.
KeyChoices(w) == IF "ai_agent" \in ActorsUsed(w) THEN BOOLEAN ELSE {FALSE}
FaultChoices(w) == IF "robot" \in ActorsUsed(w) THEN {{}, {"robot"}} ELSE {{}}

Init ==
    /\ workflow \in Workflows
    /\ hasApiKey \in KeyChoices(workflow)
    /\ faultyActors \in FaultChoices(workflow)
    /\ phase = "new"
    /\ status = None
    /\ startActivity = None
    /\ tokens = <<>>
    /\ contextData = EmptyDict
    /\ humanTasks = <<>>
    /\ apiCalls = 0
    /\ lastCall = Call("none", 0, "none", None, None)
    /\ UnitIdle

\* WorkflowEngine.__init__
Construct ==
    /\ phase = "new"
    /\ IF ConstructorRejects(workflow)
       THEN /\ phase' = "rejected"
            /\ lastCall' = Call("__init__", 0, "raised", "ValueError", None)
            /\ UNCHANGED <<status, startActivity, contextData>>
       ELSE /\ phase' = "ready"
            /\ status' = "idle"
            /\ startActivity' = FindStartActivity(workflow)
            /\ contextData' = [c \in workflow.contexts |-> EmptyDict]
            /\ lastCall' = Call("__init__", 0, "returned", None, None)
    /\ UNCHANGED <<env, unit, tokens, humanTasks, apiCalls>>

\* run with the assignment of lines 112 and 143 left out: the status stays RUNNING.
StatusAfterRunLeftRunning(outcome) ==
    IF outcome = "returned" THEN "completed" ELSE "running"

\* run, lines 109-144: the engine status when run ends. RUNNING is set on
\* entry, COMPLETED before the return, FAILED before each raise.
StatusAfterRun(outcome) ==
    CASE outcome = "returned" -> "completed"
      [] outcome = "raised" -> "failed"
      [] OTHER -> "running"

\* run storing the new token in the place of the last one.
AddTokenReplacing(toks, token) ==
    IF toks = <<>> THEN <<token>> ELSE [toks EXCEPT ![Len(toks)] = token]

\* run, line 120: `self._tokens[token.id] = token`, a new key (uuid4) of the dict.
AddToken(toks, token) == Append(toks, token)

\* WorkflowEngine.run(initial_data)
Run(initial_data) ==
    /\ phase = "ready"
    /\ Len(tokens) < MaxRuns
    /\ IF startActivity = None
       THEN /\ status' = StatusAfterRun("raised")
            /\ lastCall' = Call("run", 0, "raised", "ValueError", None)
            /\ UNCHANGED <<tokens, humanTasks>>
       ELSE LET token == NewToken(Len(tokens) + 1, startActivity, initial_data)
                r == RunLoop(workflow, AddToken(tokens, token), humanTasks,
                             hasApiKey, faultyActors, MaxSteps)
            IN /\ tokens' = r.tokens
               /\ humanTasks' = r.tasks
               /\ status' = StatusAfterRun(r.outcome)
               /\ lastCall' = CASE r.outcome = "returned" ->
                                     Call("run", token.id, "returned", None, "completed")
                                [] r.outcome = "raised" ->
                                     Call("run", token.id, "raised", "TypeError", None)
                                [] OTHER -> Call("run", token.id, "looping", None, None)
    /\ UNCHANGED <<env, unit, phase, startActivity, contextData, apiCalls>>

\* resume_token with the status test of line 277 left out.
ResumeRefusedUnknownOnly(toks, token_id) == token_id \notin DOMAIN toks

\* resume_token, line 277: the call is refused (returns False).
ResumeRefused(toks, token_id) ==
    token_id \notin DOMAIN toks \/ toks[token_id].status # WAITING

\* ------------------------------------------------ datetime.fromisoformat
\* text[i], counted from 1; "" past the end of the text
CharAt(text, i) == IF i >= 1 /\ i <= Len(text) THEN SubSeq(text, i, i) ELSE ""

\* the n characters from position p are all digits
DigitsAt(text, p, n) ==
    \A k \in 0..(n - 1) :
        CharAt(text, p + k) \in {"0", "1", "2", "3", "4", "5", "6", "7", "8", "9"}

\* the number those n digits write
RECURSIVE Number(_, _, _)
Number(text, p, n) ==
    LET c == CharAt(text, p + n - 1)
        digit == CASE c = "0" -> 0 [] c = "1" -> 1 [] c = "2" -> 2 [] c = "3" -> 3
                   [] c = "4" -> 4 [] c = "5" -> 5 [] c = "6" -> 6 [] c = "7" -> 7
                   [] c = "8" -> 8 [] c = "9" -> 9
    IN IF n = 0 THEN 0 ELSE Number(text, p, n - 1) * 10 + digit

\* number of leading characters of the text that hold the date; -1 when a
\* week date breaks off
FindIsoformatDatetimeSeparator(text) ==
    LET n == Len(text)
        \* end of the run of digits that starts after YYYYWww
        stops == {i \in 7..n : i = n \/ ~DigitsAt(text, i + 1, 1)}
        idx == CHOOSE i \in stops : \A j \in stops : i <= j
    IN IF n = 7 THEN 7
       ELSE IF CharAt(text, 5) = "-"
       THEN IF CharAt(text, 6) = "W"
            THEN IF n < 8 THEN -1
                 ELSE IF n > 8 /\ CharAt(text, 9) = "-"
                 THEN IF n = 9 THEN -1
                      ELSE IF n > 10 /\ DigitsAt(text, 11, 1) THEN 8
                      ELSE 10
                 ELSE 8
            ELSE 10
       ELSE IF CharAt(text, 5) = "W"
       THEN IF idx < 9 THEN idx ELSE IF idx % 2 = 0 THEN 7 ELSE 8
       ELSE 8

\* the date part is YYYY-MM-DD, YYYYMMDD, YYYY-Www, YYYYWww, YYYY-Www-D or
\* YYYYWwwD and names a day of the years 1..9999
ParseIsoformatDate(dstr) ==
    LET IsLeap(y) == y % 4 = 0 /\ (y % 100 # 0 \/ y % 400 = 0)
        DaysInMonth(y, m) ==
            IF m = 2 /\ IsLeap(y) THEN 29
            ELSE <<31, 28, 31, 30, 31, 30, 31, 31, 30, 31, 30, 31>>[m]
        \* number of days before January 1st of the year
        DaysBeforeYear(y) == (y - 1) * 365 + (y - 1) \div 4 - (y - 1) \div 100 + (y - 1) \div 400
        \* ordinal of the Monday that starts ISO week 1 of the year
        IsoWeek1Monday(y) ==
            LET first_day == DaysBeforeYear(y) + 1
                first_weekday == (first_day + 6) % 7
            IN IF first_weekday > 3 THEN first_day - first_weekday + 7
               ELSE first_day - first_weekday
        \* week 53 exists only in a year that starts on a Thursday, or on a
        \* Wednesday when it is a leap year
        IsoWeekDateValid(y, week, day) ==
            /\ y >= 1 /\ y <= 9999
            /\ \/ week >= 1 /\ week <= 52
               \/ /\ week = 53
                  /\ LET first_weekday == (DaysBeforeYear(y) + 1) % 7
                     IN first_weekday = 4 \/ (first_weekday = 3 /\ IsLeap(y))
            /\ day >= 1 /\ day <= 7
            /\ LET ordinal == IsoWeek1Monday(y) + (week - 1) * 7 + (day - 1)
               IN ordinal >= 1 /\ ordinal <= DaysBeforeYear(10000)
        year == Number(dstr, 1, 4)
        has_sep == CharAt(dstr, 5) = "-"
        pos == IF has_sep THEN 6 ELSE 5
    IN /\ Len(dstr) \in {7, 8, 10}
       /\ DigitsAt(dstr, 1, 4)
       /\ IF CharAt(dstr, pos) = "W"
          THEN /\ DigitsAt(dstr, pos + 1, 2)
               /\ LET week == Number(dstr, pos + 1, 2)
                      dpos == pos + 3
                      daypos == IF has_sep THEN dpos + 1 ELSE dpos
                  IN IF Len(dstr) >= dpos
                     THEN /\ (CharAt(dstr, dpos) = "-") = has_sep
                          /\ DigitsAt(dstr, daypos, 1)
                          /\ Len(dstr) = daypos
                          /\ IsoWeekDateValid(year, week, Number(dstr, daypos, 1))
                     ELSE IsoWeekDateValid(year, week, 1)
          ELSE /\ DigitsAt(dstr, pos, 2)
               /\ (CharAt(dstr, pos + 2) = "-") = has_sep
               /\ LET month == Number(dstr, pos, 2)
                      daypos == IF has_sep THEN pos + 3 ELSE pos + 2
                  IN /\ DigitsAt(dstr, daypos, 2)
                     /\ Len(dstr) = daypos + 1
                     /\ year >= 1 /\ year <= 9999
                     /\ month >= 1 /\ month <= 12
                     /\ Number(dstr, daypos, 2) >= 1
                     /\ Number(dstr, daypos, 2) <= DaysInMonth(year, month)

\* HH[:MM[:SS[.ffffff]]] or HH[MM[SS[ffffff]]] read from position p of the
\* text up to p_end (not included); i counts the fields read so far. Gives
\* [ok, rest, fields]: ok is FALSE for a malformed text, rest says that the
\* text goes on after what was read.
RECURSIVE ParseHhMmSsFf(_, _, _, _, _, _)
ParseHhMmSsFf(text, p, p_end, i, has_separator, fields) ==
    LET Malformed == [ok |-> FALSE, rest |-> FALSE, fields |-> <<0, 0, 0, 0>>]
        \* the fraction of a second from position q: up to six digits are
        \* read, further digits are skipped
        Fraction(q, read) ==
            LET len_remains == p_end - q
                to_parse == IF len_remains >= 6 THEN 6 ELSE len_remains
                after == {k \in (q + to_parse)..(Len(text) + 1) : ~DigitsAt(text, k, 1)}
                stop == CHOOSE k \in after : \A j \in after : k <= j
            IN IF ~DigitsAt(text, q, to_parse) THEN Malformed
               ELSE [ok |-> TRUE, rest |-> CharAt(text, stop) # "",
                     fields |-> [read EXCEPT ![4] = Number(text, q, to_parse) * 10 ^ (6 - to_parse)]]
        c == CharAt(text, p + 2)
        sep == IF i = 0 THEN c = ":" ELSE has_separator
        read == [fields EXCEPT ![i + 1] = Number(text, p, 2)]
    IN IF i = 3 THEN Fraction(p, fields)
       ELSE IF ~DigitsAt(text, p, 2) THEN Malformed
       ELSE IF p + 3 >= p_end THEN [ok |-> TRUE, rest |-> c # "", fields |-> read]
       ELSE IF sep /\ c = ":" THEN ParseHhMmSsFf(text, p + 3, p_end, i + 1, sep, read)
       ELSE IF c = "." \/ c = "," THEN Fraction(p + 3, read)
       ELSE IF ~sep THEN ParseHhMmSsFf(text, p + 2, p_end, i + 1, sep, read)
       ELSE Malformed

\* "naive", "aware" or "invalid" for the time part of the text
ParseIsoformatTime(tstr) ==
    LET n == Len(tstr)
        \* position of the first "Z", "+" or "-"; past the end when there is none
        hits == {i \in 1..n : CharAt(tstr, i) \in {"Z", "+", "-"}}
        tzpos == IF hits = {} THEN (IF n > 1 THEN n ELSE 1) + 1
                 ELSE CHOOSE i \in hits : \A j \in hits : i <= j
        time == ParseHhMmSsFf(tstr, 1, tzpos, 0, TRUE, <<0, 0, 0, 0>>)
        in_range == time.fields[1] <= 23 /\ time.fields[2] <= 59 /\ time.fields[3] <= 59
        tz == ParseHhMmSsFf(tstr, tzpos + 1, n + 1, 0, TRUE, <<0, 0, 0, 0>>)
        \* timezone(offset) takes offsets strictly between -24 and +24 hours
        tz_seconds == (tz.fields[1] * 60 + tz.fields[2]) * 60 + tz.fields[3]
    IN IF ~time.ok THEN "invalid"
       ELSE IF tzpos > n
       THEN IF time.rest \/ ~in_range THEN "invalid" ELSE "naive"
       ELSE IF CharAt(tstr, tzpos) = "Z"
       THEN IF tzpos # n \/ ~in_range THEN "invalid" ELSE "aware"
       ELSE IF ~tz.ok \/ tz.rest \/ tz_seconds >= 24 * 3600 \/ ~in_range THEN "invalid"
       ELSE "aware"

\* datetime.fromisoformat(text) of Python 3.11: "naive" or "aware" for the
\* datetime it returns, "invalid" when it raises ValueError
FromIsoFormat(text) ==
    IF Len(text) < 7 THEN "invalid"
    ELSE LET sep == FindIsoformatDatetimeSeparator(text)
         IN IF sep < 0 THEN "invalid"
            ELSE IF ~ParseIsoformatDate(SubSeq(text, 1, IF sep < Len(text) THEN sep ELSE Len(text)))
            THEN "invalid"
            ELSE IF Len(text) <= sep THEN "naive"
            ELSE ParseIsoformatTime(SubSeq(text, sep + 2, Len(text)))

\* resume_token, line 284: datetime.fromisoformat(waiting_since) raises
\* TypeError for an argument that is not a str and ValueError for a str it
\* cannot parse; None when it returns.
FromIsoFormatError(x) ==
    IF x.t # "str" THEN "TypeError"
    ELSE IF FromIsoFormat(x.v) = "invalid" THEN "ValueError"
    ELSE None

\* WorkflowEngine.resume_token(token_id, output)
ResumeToken(token_id, output) ==
    /\ phase = "ready"
    /\ IF ResumeRefused(tokens, token_id)
       THEN /\ lastCall' = Call("resume_token", token_id, "returned", None, "False")
            /\ UNCHANGED <<tokens, status>>
       ELSE LET tok == tokens[token_id]
                waiting_since == TokenGetData(tok, "_waiting_since")
                \* lines 283-285: the error raised before the merge, None when
                \* there is none; `datetime.now() - wait_start` raises TypeError
                \* when wait_start carries a UTC offset (naive minus aware)
                wait_error ==
                    IF ~Truthy(waiting_since) THEN None
                    ELSE IF FromIsoFormatError(waiting_since) # None
                    THEN FromIsoFormatError(waiting_since)
                    ELSE IF FromIsoFormat(waiting_since.v) = "aware" THEN "TypeError"
                    ELSE None
            IN IF wait_error # None
               THEN /\ lastCall' = Call("resume_token", token_id, "raised", wait_error, None)
                    /\ UNCHANGED <<tokens, status>>
               ELSE IF ~CallAccepted(UpdateStatusParams, AnalyticsStatusArgs)
               THEN /\ tokens' = [tokens EXCEPT ![token_id] = TokenMergeData(tok, output)]
                    /\ lastCall' = Call("resume_token", token_id, "raised", "TypeError", None)
                    /\ UNCHANGED status
               ELSE /\ tokens' = [tokens EXCEPT ![token_id] =
                                     TokenUpdateStatus(TokenMergeData(tok, output), ACTIVE)]
                    /\ status' = IF status = "waiting_human" THEN "running" ELSE status
                    /\ lastCall' = Call("resume_token", token_id, "returned", None, "True")
    /\ UNCHANGED <<env, unit, phase, startActivity, contextData, humanTasks, apiCalls>>

\* The caller holds the Token objects (WorkflowEngine.tokens) and calls their
\* public methods directly.
CallerMove(i, node) ==
    /\ phase = "ready" /\ apiCalls < MaxApiCalls /\ i \in DOMAIN tokens
    /\ tokens' = [tokens EXCEPT ![i] = TokenMove(tokens[i], node)]
    /\ apiCalls' = apiCalls + 1
    /\ lastCall' = Call("Token.move", 0, "returned", None, None)
    /\ UNCHANGED <<env, unit, phase, status, startActivity, contextData, humanTasks>>

CallerUpdateStatus(i, st) ==
    /\ phase = "ready" /\ apiCalls < MaxApiCalls /\ i \in DOMAIN tokens
    /\ tokens' = [tokens EXCEPT ![i] = TokenUpdateStatus(tokens[i], st)]
    /\ apiCalls' = apiCalls + 1
    /\ lastCall' = Call("Token.update_status", 0, "returned", None, None)
    /\ UNCHANGED <<env, unit, phase, status, startActivity, contextData, humanTasks>>

CallerSetData(i, d) ==
    /\ phase = "ready" /\ apiCalls < MaxApiCalls /\ i \in DOMAIN tokens
    /\ \E k \in DOMAIN d : tokens' = [tokens EXCEPT ![i] = TokenSetData(tokens[i], k, d[k])]
    /\ apiCalls' = apiCalls + 1
    /\ lastCall' = Call("Token.set_data", 0, "returned", None, None)
    /\ UNCHANGED <<env, unit, phase, status, startActivity, contextData, humanTasks>>

CallerMergeData(i, d) ==
    /\ phase = "ready" /\ apiCalls < MaxApiCalls /\ i \in DOMAIN tokens
    /\ tokens' = [tokens EXCEPT ![i] = TokenMergeData(tokens[i], d)]
    /\ apiCalls' = apiCalls + 1
    /\ lastCall' = Call("Token.merge_data", 0, "returned", None, None)
    /\ UNCHANGED <<env, unit, phase, status, startActivity, contextData, humanTasks>>

Next ==
    \/ Construct
    \/ \E d \in InitialData(workflow) : Run(d)
    \/ \E id \in 1..(Len(tokens) + 1), out \in ResumeOutputs : ResumeToken(id, out)
    \/ \E i \in 1..MaxRuns, n \in NodeIds(workflow) : CallerMove(i, n)
    \/ \E i \in 1..MaxRuns, st \in TokenStatus : CallerUpdateStatus(i, st)
    \/ \E i \in 1..MaxRuns, d \in CallerSets : CallerSetData(i, d)
    \/ \E i \in 1..MaxRuns, d \in CallerMerges : CallerMergeData(i, d)

Spec == Init /\ [][Next]_vars

\* ---------------------------------------------------------- HumanTaskQueue
\* Inputs of HumanTaskQueue.complete(task_id, data): the id of the first task
\* and an id no task has; one answer.
TaskIdsAsked == {TaskId(1), "h0"}
TaskAnswers == {[k \in {"answer"} |-> VStr("yes")]}

\* self._tasks.get(task_id): index of the task, 0 when absent
TaskIndex(tasks, task_id) ==
    LET hits == {k \in DOMAIN tasks : tasks[k].id = task_id}
    IN IF hits = {} THEN 0 ELSE FirstIndex(hits)

\* get_task_queue().complete(task_id, data): an unknown id returns False; else
\* the task is marked completed and `task.data.update(data)` writes into the
\* task's dict, which is the context_data dict of the token the task was
\* created for when that dict was not empty at the time (NewHumanTask).
CompleteTask(task_id, data) ==
    /\ LET k == TaskIndex(humanTasks, task_id)
       IN IF k = 0
          THEN /\ lastCall' = Call("HumanTaskQueue.complete", task_id, "returned", None, "False")
               /\ UNCHANGED <<humanTasks, tokens>>
          ELSE /\ lastCall' = Call("HumanTaskQueue.complete", task_id, "returned", None, "True")
               /\ IF humanTasks[k].shares = 0
                  THEN /\ humanTasks' = [humanTasks EXCEPT ![k].status = "completed",
                                                           ![k].data = DictUpdate(@, data)]
                       /\ UNCHANGED tokens
                  ELSE /\ humanTasks' = [humanTasks EXCEPT ![k].status = "completed"]
                       /\ tokens' = [tokens EXCEPT ![humanTasks[k].shares].context_data =
                                                       DictUpdate(@, data)]
    /\ UNCHANGED <<env, unit, phase, status, startActivity, contextData, apiCalls>>

\* The workflows that start at a human activity, and the one without activities.
HumanWorkflows ==
    {w \in Workflows : w.activities = <<>> \/ w.activities[1].actor_type = "human"}

HumanInit ==
    /\ Init
    /\ workflow \in HumanWorkflows

\* get_task_queue().add(HumanTask(activity_id, workflow_id, data)) called by a
\* client, with or without an engine: the task is stored under its new id.
\* `data or {}` is the client's own dict, which no token shares.
QueueAdd(activity_id, data) ==
    /\ apiCalls < MaxApiCalls
    /\ humanTasks' = Append(humanTasks,
                            [id |-> TaskId(Len(humanTasks) + 1), activity_id |-> activity_id,
                             status |-> "pending", shares |-> 0, data |-> data])
    /\ apiCalls' = apiCalls + 1
    /\ lastCall' = Call("HumanTaskQueue.add", TaskId(Len(humanTasks) + 1), "returned", None, None)
    /\ UNCHANGED <<env, unit, phase, status, startActivity, contextData, tokens>>

\* HumanAgent().execute(activity, token) called by a client on an activity of
\* the workflow and a token of the engine: a task is enqueued for the token
\* and the result is handed back; the token is not touched.
AgentExecute(a, i) ==
    /\ phase = "ready" /\ apiCalls < MaxApiCalls
    /\ a \in DOMAIN workflow.activities /\ i \in DOMAIN tokens
    /\ LET task == NewHumanTask(Len(humanTasks) + 1, workflow.activities[a].id, tokens[i])
       IN /\ humanTasks' = Append(humanTasks, task)
          /\ lastCall' = Call("HumanAgent.execute", i, "returned", None,
                              Str(HumanResult(workflow.activities[a], task)["_human_task_id"]))
    /\ apiCalls' = apiCalls + 1
    /\ UNCHANGED <<env, unit, phase, status, startActivity, contextData, tokens>>

HumanNext ==
    \/ Next
    \/ \E id \in TaskIdsAsked, d \in TaskAnswers : CompleteTask(id, d)
    \/ \E d \in {EmptyDict, [k \in {"note"} |-> VStr("call back")]} : QueueAdd(ActId(1), d)
    \/ \E a \in 1..MaxChain, i \in 1..MaxRuns : AgentExecute(a, i)

HumanSpec == HumanInit /\ [][HumanNext]_vars

\* ------------------------------------------------------------- resume_token
\* A caller that parks a token and stamps it before resuming it.
\* token.update_status(TokenStatus.WAITING) called by the caller
CallerWaits(i) ==
    /\ phase = "ready" /\ apiCalls < MaxWaitCalls /\ i \in DOMAIN tokens
    /\ tokens' = [tokens EXCEPT ![i] = TokenUpdateStatus(tokens[i], WAITING)]
    /\ apiCalls' = apiCalls + 1
    /\ lastCall' = Call("Token.update_status", 0, "returned", None, None)
    /\ UNCHANGED <<env, unit, phase, status, startActivity, contextData, humanTasks>>

\* token.set_data("_waiting_since", value) called by the caller
CallerStamps(i, value) ==
    /\ phase = "ready" /\ apiCalls < MaxWaitCalls /\ i \in DOMAIN tokens
    /\ tokens' = [tokens EXCEPT ![i] = TokenSetData(tokens[i], "_waiting_since", value)]
    /\ apiCalls' = apiCalls + 1
    /\ lastCall' = Call("Token.set_data", 0, "returned", None, None)
    /\ UNCHANGED <<env, unit, phase, status, startActivity, contextData, humanTasks>>

\* The values stored are texts fromisoformat reads as a local time, texts it
\* reads as a time with a UTC offset, texts it rejects, and values that are
\* no text.
ResumeNext ==
    \/ Construct
    \/ \E d \in InitialData(workflow) : Run(d)
    \/ \E id \in 1..(Len(tokens) + 1), out \in ResumeOutputs : ResumeToken(id, out)
    \/ \E i \in 1..MaxRuns : CallerWaits(i)
    \/ \E i \in 1..MaxRuns,
          v \in {VStr("2024-01-01T10:00:00.123456"), VStr("2024-01-01"), VStr("20240101T1000"),
                 VStr("2024-01-01T10:00:00+00:00"), VStr("2024-01-01T10:00:00Z"),
                 VStr("2024-01-01T"), VStr("yesterday"), VStr(""), VBool(TRUE), VNone} :
          CallerStamps(i, v)

ResumeSpec == HumanInit /\ [][ResumeNext]_vars

\* ------------------------------------------------------------------ routing
\* A decision rule that names an edge leaving another node: Start -> Decision,
\* Decision -> PathA -> End, with rule "B" sent along the edge PathA -> End.
\* validate_workflow_integrity has no check on the edges that rules name.
StrayEdgeWorkflow ==
    Wf("stray_edge",
       <<Act("a1", "application", "unset", <<>>), Act("a2", "application", "unset", <<>>),
         Act("a3", "application", "unset", <<>>)>>,
       <<Edge("e1", "a1", "d1"), Edge("e2", "d1", "a2"), Edge("e3", "a2", "a3")>>,
       <<Decision("d1", <<"choice">>, <<Rule(<<"A">>, "e2"), Rule(<<"B">>, "e3")>>, None)>>,
       {}, {})

RoutingWorkflows == {StrayEdgeWorkflow, DecisionWorkflow(None)}

RoutingInit ==
    /\ workflow \in RoutingWorkflows
    /\ hasApiKey \in KeyChoices(workflow)
    /\ faultyActors \in FaultChoices(workflow)
    /\ phase = "new"
    /\ status = None
    /\ startActivity = None
    /\ tokens = <<>>
    /\ contextData = EmptyDict
    /\ humanTasks = <<>>
    /\ apiCalls = 0
    /\ lastCall = Call("none", 0, "none", None, None)
    /\ UnitIdle

RoutingSpec == RoutingInit /\ [][Next]_vars

\* ============================================== components used on their own
\* The engine's fields other than the call counter and the call record.
engine == <<workflow, hasApiKey, faultyActors, phase, status, startActivity, tokens,
            contextData, humanTasks>>

\* No engine has been constructed.
NoEngine ==
    /\ workflow = ChainWorkflow(0, "application", "application")
    /\ hasApiKey = FALSE
    /\ faultyActors = {}
    /\ phase = "new"
    /\ status = None
    /\ startActivity = None
    /\ tokens = <<>>
    /\ contextData = EmptyDict
    /\ humanTasks = <<>>

\* ------------------------------------------------------- DecisionEvaluator
\* awa/types HitPolicy
HitPolicy == {"unique", "first", "priority", "any", "collect", "rule_order"}

\* Rules a table over the one column "choice" may declare: plain rules, two
\* rules on the same entry, a rule without entries, a rule without an edge.
TableRules ==
    {Rule(<<"A">>, "e2"), Rule(<<"B">>, "e3"), Rule(<<"A">>, "e3"),
     Rule(<<>>, "e4"), Rule(<<"B">>, None)}

\* awa/types DecisionNode, with the hit policy its table declares
DecisionNodes ==
    {[id |-> "d1", inputs |-> <<"choice">>, rules |-> rules,
      default_output_edge_id |-> dflt, hit_policy |-> hp] :
        rules \in UNION {[1..k -> TableRules] : k \in 0..MaxRules},
        dflt \in {None, "e9"},
        hp \in {"unique", "collect"}}

\* The context data a node is evaluated against
DecisionData ==
    {EmptyDict, [k \in {"choice"} |-> VStr("A")], [k \in {"choice"} |-> VStr("B")],
     [k \in {"choice"} |-> VStr("C")]}

\* The node and the data of the call to come are drawn here.
DecisionInit ==
    /\ NoEngine
    /\ UnitIdle
    /\ apiCalls = 0
    /\ \E node \in DecisionNodes, d \in DecisionData :
          lastCall = Call("none", [node |-> node, context_data |-> d], "none", None, None)

\* DecisionEvaluator().evaluate(node, context_data)
EvaluateCall ==
    /\ lastCall.op = "none"
    /\ lastCall' = Call("DecisionEvaluator.evaluate", lastCall.arg, "returned", None,
                        Evaluate(lastCall.arg.node, lastCall.arg.context_data))
    /\ UNCHANGED <<engine, unit, apiCalls>>

DecisionNext == EvaluateCall

DecisionSpec == DecisionInit /\ [][DecisionNext]_vars

\* ------------------------------------------- DecisionEvaluator._evaluate_rule
ColumnName(i) == <<"choice", "flag", "tier", "zone">>[i]

\* The tables a rule is evaluated against: 0..MaxColumns input columns.
RuleTables == {[inputs |-> [i \in 1..k |-> ColumnName(i)]] : k \in 0..MaxColumns}

\* The rules evaluated: 0..MaxEntries input entries (DecisionRule.input_entries
\* is a list of str, so str(entry) is the entry).
RuleEntries == {"A", "None", "True"}
RulesEvaluated == {Rule(entries, None) : entries \in UNION {[1..k -> RuleEntries] : k \in 0..MaxEntries}}

\* The context data over the columns of a table: any of its keys may be absent,
\* a present key holds a string, None or True.
RuleDataValues == {VStr("A"), VStr("B"), VNone, VBool(TRUE)}
RuleData(table) ==
    LET names == {table.inputs[i] : i \in DOMAIN table.inputs}
    IN UNION {[keys -> RuleDataValues] : keys \in SUBSET names}

\* The rule, the table and the data of the call to come are drawn here.
RuleInit ==
    /\ NoEngine
    /\ UnitIdle
    /\ apiCalls = 0
    /\ \E rule \in RulesEvaluated, table \in RuleTables :
          \E d \in RuleData(table) :
             lastCall = Call("none", [rule |-> rule, table |-> table, context_data |-> d],
                             "none", None, None)

\* DecisionEvaluator()._evaluate_rule(rule, table, context_data)
EvaluateRuleCall ==
    /\ lastCall.op = "none"
    /\ lastCall' = Call("DecisionEvaluator._evaluate_rule", lastCall.arg, "returned", None,
                        IF EvaluateRule(lastCall.arg.rule, lastCall.arg.table,
                                        lastCall.arg.context_data)
                        THEN "True" ELSE "False")
    /\ UNCHANGED <<engine, unit, apiCalls>>

RuleNext == EvaluateRuleCall

RuleSpec == RuleInit /\ [][RuleNext]_vars

\* ---------------------------------------------------------- ContextManager
\* awa/types AccessMode: the members the enumeration declares.
AccessModeMembers == {"read", "write", "read_write", "subscribe", "publish"}

\* Identities: a uuid.UUID object and a str never compare equal in Python.
UuidId(v) == [t |-> "uuid", v |-> v]
StrId(v) == [t |-> "str", v |-> v]

\* awa/types Context: a pydantic model with identity `id` (a UUID) and no
\* access_rights field.
DeclaredContext(id) == [id |-> id, has_access_rights |-> FALSE, access_rights |-> <<>>]

\* An object that does carry access_rights, each with role_id and access_mode.
GrantingContext(id, rights) == [id |-> id, has_access_rights |-> TRUE, access_rights |-> rights]
Grant(role_id, access_mode) == [role_id |-> role_id, access_mode |-> access_mode]
Grants == {Grant(r, m) : r \in {"r1", "r2"}, m \in {"read", "write", "read_write"}}

\* The `contexts` argument of ContextManager(contexts)
ContextLists ==
    {<<>>, <<DeclaredContext(UuidId("c1"))>>}
    \cup {<<GrantingContext(StrId("c1"), rights)>> :
              rights \in UNION {[1..k -> Grants] : k \in 0..MaxGrants}}

\* self._contexts.get(context_id): index of the context kept under that key
\* (a later context of the same id replaces an earlier one), 0 when absent.
ContextIndex(ctxs, context_id) ==
    LET hits == {i \in DOMAIN ctxs : ctxs[i].id = context_id}
    IN IF hits = {} THEN 0 ELSE LastIndex(hits)

\* ContextManager.check_access, lines 58-77. Gives [outcome, error, value].
\* Reading context.access_rights raises when the object has no such attribute;
\* the first access right of the role decides, and deciding reads
\* AccessMode.READ, which raises when the enumeration has no member READ.
CheckAccess(ctxs, context_id, role_id, mode) ==
    LET ci == ContextIndex(ctxs, context_id)
        rights == ctxs[ci].access_rights
        mine == {i \in DOMAIN rights : rights[i].role_id = role_id}
        granted == rights[FirstIndex(mine)].access_mode
        returns(b) == [outcome |-> "returned", error |-> None,
                       value |-> IF b THEN "True" ELSE "False"]
        raises == [outcome |-> "raised", error |-> "AttributeError", value |-> None]
    IN IF ci = 0 THEN returns(FALSE)
       ELSE IF ~ctxs[ci].has_access_rights THEN raises
       ELSE IF mine = {} THEN returns(FALSE)
       ELSE IF "READ" \notin AccessModeMembers THEN raises
       ELSE IF mode = "READ" THEN returns(granted \in {"READ", "READ_WRITE"})
       ELSE IF "WRITE" \notin AccessModeMembers THEN raises
       ELSE IF mode = "WRITE" THEN returns(granted \in {"WRITE", "READ_WRITE"})
       ELSE IF "READ_WRITE" \notin AccessModeMembers THEN raises
       ELSE IF mode = "READ_WRITE" THEN returns(granted = "READ_WRITE")
       ELSE returns(FALSE)

\* Inputs of ContextManager.merge: two keys at once, and a key written before.
ManagerMerges ==
    {[k \in {"k", "k2"} |-> VStr("v")], [k \in {"k"} |-> VStr("w")]}

\* Identities and roles the manager is asked about
AskedContexts == {UuidId("c1"), StrId("c1"), StrId("c9")}
AskedRoles == {"r1", "r2"}
AskedModes == {"read", "write", "read_write"}

\* ContextManager.__init__: one empty dict per context.
AccessInit ==
    /\ NoEngine
    /\ freeToken = NoToken /\ createdOn = None /\ stamps = <<>>
    /\ contexts \in ContextLists
    /\ store = [id \in {contexts[i].id : i \in DOMAIN contexts} |-> EmptyDict]
    /\ apiCalls = 0
    /\ lastCall = Call("none", 0, "none", None, None)

\* ContextManager.write(context_id, key, value)
ManagerWrite(context_id, key, val) ==
    /\ store' = DictSet(store, context_id,
                        DictSet(IF context_id \in DOMAIN store THEN store[context_id] ELSE EmptyDict,
                                key, val))
    /\ lastCall' = Call("ContextManager.write", 0, "returned", None, None)
    /\ UNCHANGED <<engine, apiCalls, freeToken, createdOn, stamps, contexts>>

\* ContextManager.merge(context_id, data)
ManagerMerge(context_id, data) ==
    /\ store' = DictSet(store, context_id,
                        DictUpdate(IF context_id \in DOMAIN store THEN store[context_id]
                                   ELSE EmptyDict,
                                   data))
    /\ lastCall' = Call("ContextManager.merge", 0, "returned", None, None)
    /\ UNCHANGED <<engine, apiCalls, freeToken, createdOn, stamps, contexts>>

\* ContextManager.clear(context_id)
ManagerClear(context_id) ==
    /\ store' = DictSet(store, context_id, EmptyDict)
    /\ lastCall' = Call("ContextManager.clear", 0, "returned", None, None)
    /\ UNCHANGED <<engine, apiCalls, freeToken, createdOn, stamps, contexts>>

\* ContextManager.check_access(context_id, role_id, mode)
ManagerCheckAccess(context_id, role_id, mode) ==
    LET r == CheckAccess(contexts, context_id, role_id, mode)
    IN /\ lastCall' = Call("ContextManager.check_access",
                           [context_id |-> context_id, role_id |-> role_id, mode |-> mode],
                           r.outcome, r.error, r.value)
       /\ UNCHANGED <<engine, apiCalls, unit>>

AccessNext ==
    \/ \E c \in {StrId("c1"), StrId("c9")} : ManagerWrite(c, "k", VStr("v"))
    \/ \E c \in {StrId("c1"), StrId("c9")}, d \in ManagerMerges : ManagerMerge(c, d)
    \/ \E c \in {StrId("c1")} : ManagerClear(c)
    \/ \E c \in AskedContexts, r \in AskedRoles, m \in AskedModes : ManagerCheckAccess(c, r, m)

AccessSpec == AccessInit /\ [][AccessNext]_vars

\* -------------------------------------------------------------------- Token
\* Arguments of the calls made on the Token
TokenNodes == {"a1", "a2"}
TokenInitialData == {EmptyDict, [k \in {"input_key"} |-> VStr("input_value")]}

\* datetime.now(): the wall clock in local time. Against the reading before,
\* a reading is later, the same (timer resolution) or earlier (the clock was
\* set back, or daylight saving ended).
ClockSteps == {-1, 0, 1}
Reading(last, step) == last + step

TokenInit ==
    /\ NoEngine
    /\ UnitIdle
    /\ apiCalls = 0
    /\ lastCall = Call("none", 0, "none", None, None)

\* Token(activity_id, initial_data)
FreeTokenInit(activity_id, initial_data, now) ==
    /\ freeToken = NoToken
    /\ freeToken' = NewToken(1, activity_id, initial_data)
    /\ createdOn' = activity_id
    /\ stamps' = <<now>>
    /\ lastCall' = Call("Token", activity_id, "returned", None, None)
    /\ UNCHANGED <<engine, apiCalls, contexts, store>>

\* token.move(next_activity_id): one clock reading per appended entry
FreeTokenMove(next_activity_id, step1, step2) ==
    /\ freeToken # NoToken /\ apiCalls < MaxTokenOps
    /\ freeToken' = TokenMove(freeToken, next_activity_id)
    /\ LET exited_at == Reading(stamps[Len(stamps)], step1)
       IN stamps' = stamps \o <<exited_at, Reading(exited_at, step2)>>
    /\ apiCalls' = apiCalls + 1
    /\ lastCall' = Call("Token.move", next_activity_id, "returned", None, None)
    /\ UNCHANGED <<engine, createdOn, contexts, store>>

\* token.update_status(status)
FreeTokenUpdateStatus(st, step) ==
    /\ freeToken # NoToken /\ apiCalls < MaxTokenOps
    /\ freeToken' = TokenUpdateStatus(freeToken, st)
    /\ stamps' = Append(stamps, Reading(stamps[Len(stamps)], step))
    /\ apiCalls' = apiCalls + 1
    /\ lastCall' = Call("Token.update_status", st, "returned", None, None)
    /\ UNCHANGED <<engine, createdOn, contexts, store>>

\* token.set_data(key, value)
FreeTokenSetData(key, val) ==
    /\ freeToken # NoToken /\ apiCalls < MaxTokenOps
    /\ freeToken' = TokenSetData(freeToken, key, val)
    /\ apiCalls' = apiCalls + 1
    /\ lastCall' = Call("Token.set_data", key, "returned", None, None)
    /\ UNCHANGED <<engine, createdOn, stamps, contexts, store>>

\* token.merge_data(data)
FreeTokenMergeData(d) ==
    /\ freeToken # NoToken /\ apiCalls < MaxTokenOps
    /\ freeToken' = TokenMergeData(freeToken, d)
    /\ apiCalls' = apiCalls + 1
    /\ lastCall' = Call("Token.merge_data", 0, "returned", None, None)
    /\ UNCHANGED <<engine, createdOn, stamps, contexts, store>>

\* Every Token method, under every clock.
TokenNext ==
    \/ \E n \in TokenNodes, d \in TokenInitialData : FreeTokenInit(n, d, 0)
    \/ \E n \in TokenNodes, step1 \in ClockSteps, step2 \in ClockSteps :
          FreeTokenMove(n, step1, step2)
    \/ \E st \in TokenStatus, step \in ClockSteps : FreeTokenUpdateStatus(st, step)
    \/ FreeTokenSetData("k", VStr("v"))
    \/ \E d \in CallerMerges : FreeTokenMergeData(d)

TokenSpec == TokenInit /\ [][TokenNext]_vars

\* The methods that append to the history, under every clock.
ClockNext ==
    \/ FreeTokenInit("a1", EmptyDict, 0)
    \/ \E step1 \in ClockSteps, step2 \in ClockSteps : FreeTokenMove("a2", step1, step2)
    \/ \E step \in ClockSteps : FreeTokenUpdateStatus(COMPLETED, step)

ClockSpec == TokenInit /\ [][ClockNext]_vars

\* ------------------------------------------------------ format_iso_duration
\* Durations (floats in the code) are counted in ticks of a fiftieth of a
\* second: finer than the tenth the seconds are printed with.
Tick == 1
Tenth == 5 * Tick
Second == 10 * Tenth
Minute == 60 * Second
Hour == 60 * Minute
Day == 24 * Hour

\* f"{secs:.1f}": the float rounded to one decimal when printed. A number of
\* ticks is never halfway between two tenths: up to two ticks above a tenth
\* print as that tenth, three or four as the next, 59.96 as "60.0".
OneDecimal(ticks) ==
    LET tenths == (ticks + 2 * Tick) \div Tenth
    IN ToString(tenths \div 10) \o "." \o ToString(tenths % 10)

\* format_iso_duration(seconds), lines 12-34. The tests `secs > 0` and
\* `result == "PT"` are made on the unrounded value.
FormatIsoDuration(ticks) ==
    LET seconds == IF ticks < 0 THEN 0 ELSE ticks
        days == seconds \div Day
        hours == (seconds % Day) \div Hour
        minutes == (seconds % Hour) \div Minute
        secs == seconds % Minute
        r1 == "P" \o (IF days > 0 THEN ToString(days) \o "D" ELSE "")
        r2 == r1 \o "T"
        r3 == r2 \o (IF hours > 0 THEN ToString(hours) \o "H" ELSE "")
        r4 == r3 \o (IF minutes > 0 THEN ToString(minutes) \o "M" ELSE "")
    IN r4 \o (IF secs > 0 \/ r4 = "PT" THEN OneDecimal(secs) \o "S" ELSE "")

\* The durations formatted: a negative one, and every mix of days, hours,
\* minutes and seconds that are zero, one, or the largest below the next unit,
\* the seconds also a fraction that prints as the tenth below or above it.
Durations ==
    {-Second}
    \cup {d * Day + h * Hour + m * Minute + t :
              d \in 0..MaxDays, h \in {0, 1, 23}, m \in {0, 1, 59},
              t \in {0, 2 * Tick, 5 * Tenth, Second, 599 * Tenth, Minute - 2 * Tick}}

\* The duration of the call to come is drawn here.
DurationInit ==
    /\ NoEngine
    /\ UnitIdle
    /\ apiCalls = 0
    /\ \E ticks \in Durations : lastCall = Call("none", ticks, "none", None, None)

FormatCall ==
    /\ lastCall.op = "none"
    /\ lastCall' = Call("format_iso_duration", lastCall.arg, "returned", None,
                        FormatIsoDuration(lastCall.arg))
    /\ UNCHANGED <<engine, unit, apiCalls>>

DurationNext == FormatCall

DurationSpec == DurationInit /\ [][DurationNext]_vars

\* ------------------------------------------------------- the start activity
\* The edges that n activities admit, numbered: edge (i - 1) * n + j leads
\* from activity i to activity j.
GraphEdge(n, k) ==
    Edge("e" \o ToString(k), ActId(((k - 1) \div n) + 1), ActId(((k - 1) % n) + 1))

\* n application activities and the edges numbered in `picked`, declared in
\* ascending order of their numbers.
GraphWorkflow(n, picked) ==
    LET order == Ascending(picked, 1, n * n)
    IN Wf("graph",
          [i \in 1..n |-> Act(ActId(i), "application", "unset", <<>>)],
          [i \in DOMAIN order |-> GraphEdge(n, order[i])],
          <<>>, {}, {})

\* Every workflow of n activities with edges between different activities.
GraphsOf(n) ==
    {GraphWorkflow(n, picked) :
        picked \in SUBSET {k \in 1..(n * n) : ((k - 1) \div n) # ((k - 1) % n)}}

GraphWorkflows == UNION {GraphsOf(n) : n \in 0..MaxActivities}

StartInit ==
    /\ workflow \in GraphWorkflows
    /\ hasApiKey = FALSE
    /\ faultyActors = {}
    /\ phase = "new"
    /\ status = None
    /\ startActivity = None
    /\ tokens = <<>>
    /\ contextData = EmptyDict
    /\ humanTasks = <<>>
    /\ apiCalls = 0
    /\ lastCall = Call("none", 0, "none", None, None)
    /\ UnitIdle

StartNext ==
    \/ Construct
    \/ \E d \in {EmptyDict} : Run(d)

StartSpec == StartInit /\ [][StartNext]_vars

\* =================================================================== claims
\* The first run() of a freshly constructed engine has just ended.
FirstRunEnded == lastCall.op = "run" /\ Len(tokens) = 1 /\ apiCalls = 0

IsChain(w) == w.name = "chain" /\ Len(w.activities) >= 1

\* C1: run over N >= 1 non-human activities chained by N-1 edges returns with
\* exactly one token, COMPLETED, whose history has 2N entries plus "created".
C1_ChainRunCompletes ==
    (FirstRunEnded /\ IsChain(workflow) /\ "human" \notin ActorsUsed(workflow) /\ faultyActors = {})
    => /\ lastCall.outcome = "returned"
       /\ tokens[1].status = COMPLETED
       /\ Len(tokens[1].history) = 2 * Len(workflow.activities) + 1

\* C2: a token executing a human activity becomes WAITING with a "waiting
\* since" stamp and is still at that activity, WAITING, when run returns.
C2_HumanActivitySuspends ==
    (/\ FirstRunEnded
     /\ ActivityIndex(workflow, startActivity) # 0
     /\ workflow.activities[ActivityIndex(workflow, startActivity)].actor_type = "human")
    => /\ lastCall.outcome = "returned"
       /\ tokens[1].status = WAITING
       /\ tokens[1].activity_id = startActivity
       /\ "_waiting_since" \in DOMAIN tokens[1].context_data

\* C3: resume_token on an unknown token identity, or on a token that is not
\* WAITING, returns false and changes no token, nor the engine status, the
\* contexts or the task queue.
C3_ResumeRefusedChangesNothing ==
    [][(/\ lastCall'.op = "resume_token"
        /\ (lastCall'.arg \notin DOMAIN tokens \/ tokens[lastCall'.arg].status # WAITING))
       => /\ lastCall'.outcome = "returned"
          /\ lastCall'.value = "False"
          /\ tokens' = tokens
          /\ status' = status
          /\ contextData' = contextData
          /\ humanTasks' = humanTasks]_vars

\* C3 witness: resume_token was refused for a known token that had ended.
C3_Witness ==
    /\ lastCall.op = "resume_token" /\ lastCall.value = "False"
    /\ lastCall.arg \in DOMAIN tokens
    /\ tokens[lastCall.arg].status \in {COMPLETED, FAILED, CANCELLED}

\* C4: resume_token on an existing WAITING token never raises: it merges the
\* output, makes the token ACTIVE with one more history entry, returns true.
C4_ResumeWaitingSucceeds ==
    [][(/\ lastCall'.op = "resume_token"
        /\ lastCall'.arg \in DOMAIN tokens
        /\ tokens[lastCall'.arg].status = WAITING)
       => /\ lastCall'.outcome = "returned"
          /\ lastCall'.value = "True"
          /\ tokens'[lastCall'.arg].status = ACTIVE
          /\ Len(tokens'[lastCall'.arg].history) = Len(tokens[lastCall'.arg].history) + 1]_vars

\* C5: when the actor raises, the token becomes FAILED and run still returns.
C5_ActorFailureContained ==
    (/\ FirstRunEnded
     /\ ActivityIndex(workflow, startActivity) # 0
     /\ workflow.activities[ActivityIndex(workflow, startActivity)].actor_type \in faultyActors)
    => /\ lastCall.outcome = "returned"
       /\ tokens[1].status = FAILED

\* C6: a workflow that fails integrity validation is rejected by the
\* constructor, so no engine exists to run it.
C6_InvalidWorkflowRejected ==
    IntegrityErrors(workflow) > 0 => phase \in {"new", "rejected"}

\* C7: in Start -> Decision(choice) -> {PathA | PathB}, running with the choice
\* of rule k ends with the token COMPLETED at the target of rule k's edge.
C7_DecisionRoutesToRuleTarget ==
    (FirstRunEnded /\ workflow.name = "decision")
    => \A k \in DOMAIN workflow.decision_nodes[1].rules :
          LET rule == workflow.decision_nodes[1].rules[k]
          IN DictGet(tokens[1].context_data, "choice") = VStr(rule.input_entries[1])
             => /\ tokens[1].activity_id = FindTargetByEdge(workflow, rule.output_edge_id)
                /\ tokens[1].status = COMPLETED

\* The token's node gives no route: no activity, and either no decision node or
\* a decision whose evaluation gives no edge or an undeclared edge.
RoutingFails(w, tok) ==
    /\ ActivityIndex(w, tok.activity_id) = 0
    /\ \/ DecisionIndex(w, tok.activity_id) = 0
       \/ LET edge_id == Evaluate(w.decision_nodes[DecisionIndex(w, tok.activity_id)], tok.context_data)
          IN edge_id = None \/ FindTargetByEdge(w, edge_id) = None

\* C8: in each routing failure case the token becomes FAILED and run does not raise.
C8_RoutingFailureFailsToken ==
    [][lastCall'.op = "run"
       => \A i \in DOMAIN tokens :
             (tokens[i].status = ACTIVE /\ RoutingFails(workflow, tokens[i]))
             => (tokens'[i].status = FAILED /\ lastCall'.outcome = "returned")]_vars

\* C10: whenever run or resume_token returns, the engine status follows from
\* the token statuses: RUNNING if a token is ACTIVE, WAITING_HUMAN if none is
\* ACTIVE and one is WAITING, COMPLETED if all are COMPLETED.
C10_EngineStatusFollowsTokens ==
    (lastCall.op \in {"run", "resume_token"} /\ lastCall.outcome = "returned" /\ tokens # <<>>)
    => /\ HasActiveTokens(tokens) => status = "running"
       /\ (~HasActiveTokens(tokens) /\ \E i \in DOMAIN tokens : tokens[i].status = WAITING)
             => status = "waiting_human"
       /\ (\A i \in DOMAIN tokens : tokens[i].status = COMPLETED) => status = "completed"

\* C11: when an exception escapes the step loop, or the workflow has no
\* activity to start from, run raises to its caller and leaves the engine
\* status FAILED, never RUNNING or COMPLETED.
C11_RaisedRunLeavesFailed ==
    lastCall.op = "run"
    => /\ startActivity = None
          => (lastCall.outcome = "raised" /\ lastCall.error = "ValueError")
       /\ lastCall.outcome = "raised" => status = "failed"

\* C11 witness: an exception escaped the step loop of a run, which raised it
\* to the caller with the engine status FAILED.
C11_Witness ==
    /\ lastCall.op = "run" /\ lastCall.outcome = "raised" /\ lastCall.error = "TypeError"
    /\ Len(tokens) >= 1
    /\ status = "failed"

\* C12: for every workflow the constructor accepts (cyclic ones included), run
\* terminates by returning the snapshot, with no token left ACTIVE.
C12_RunReturnsSnapshot ==
    (lastCall.op = "run" /\ phase = "ready")
    => (lastCall.outcome = "returned" /\ ~HasActiveTokens(tokens))

\* C13: once a token is COMPLETED, FAILED or CANCELLED, no run and no
\* resume_token changes its status, its current node or its history.
C13_TerminalTokensAbsorbing ==
    [][lastCall'.op \in {"run", "resume_token"}
       => \A i \in DOMAIN tokens :
             tokens[i].status \in {COMPLETED, FAILED, CANCELLED}
             => /\ tokens'[i].status = tokens[i].status
                /\ tokens'[i].activity_id = tokens[i].activity_id
                /\ tokens'[i].history = tokens[i].history]_vars

\* C13 witness: a run has ended while an earlier token was FAILED at an
\* activity that the engine executes for ACTIVE tokens.
C13_Witness ==
    /\ lastCall.op = "run" /\ Len(tokens) = 2
    /\ tokens[1].status = FAILED
    /\ ActivityIndex(workflow, tokens[1].activity_id) # 0
    /\ tokens[2].activity_id = tokens[1].activity_id

\* C14: evaluate returns the output edge of the first rule, in declaration
\* order, that matches the data, whatever the hit policy; when no rule matches
\* it returns the node's default edge, or nothing when none is declared.
C14_FirstMatchElseDefault ==
    lastCall.op = "DecisionEvaluator.evaluate"
    => LET node == lastCall.arg.node
           Matches(k) == EvaluateRule(node.rules[k], node, lastCall.arg.context_data)
       IN /\ \A k \in DOMAIN node.rules :
                (Matches(k) /\ \A j \in 1..(k - 1) : ~Matches(j))
                => lastCall.value = node.rules[k].output_edge_id
          /\ (\A k \in DOMAIN node.rules : ~Matches(k))
                => lastCall.value = node.default_output_edge_id

\* C14 witness: two rules with different edges match under a hit policy other
\* than "first", and the edge of the earlier one was returned.
C14_Witness ==
    /\ lastCall.op = "DecisionEvaluator.evaluate"
    /\ LET node == lastCall.arg.node
           Matches(k) == EvaluateRule(node.rules[k], node, lastCall.arg.context_data)
       IN /\ node.hit_policy = "collect"
          /\ Len(node.rules) = 2
          /\ Matches(1) /\ Matches(2)
          /\ node.rules[1].output_edge_id # node.rules[2].output_edge_id
          /\ lastCall.value = node.rules[1].output_edge_id

\* The grant modes the claim calls compatible with a requested mode.
CompatibleModes(mode) ==
    CASE mode = "read" -> {"read", "read_write"}
      [] mode = "write" -> {"write", "read_write"}
      [] OTHER -> {"read_write"}

\* C15: check_access returns true exactly when some access right of the
\* context bound to the role has a compatible mode (also when only a later
\* grant of the role is compatible), and false for an unknown context or a
\* role without grant.
C15_AccessByCompatibleGrant ==
    lastCall.op = "ContextManager.check_access"
    => LET ci == ContextIndex(contexts, lastCall.arg.context_id)
           allowed == /\ ci # 0
                      /\ \E i \in DOMAIN contexts[ci].access_rights :
                            /\ contexts[ci].access_rights[i].role_id = lastCall.arg.role_id
                            /\ contexts[ci].access_rights[i].access_mode
                                  \in CompatibleModes(lastCall.arg.mode)
       IN /\ lastCall.outcome = "returned"
          /\ lastCall.value = (IF allowed THEN "True" ELSE "False")

\* C16: every token, after any sequence of move, update_status, set_data and
\* merge_data, has a non-empty history whose first entry is "created" at the
\* node it was constructed on; a new token is ACTIVE with that one entry.
C16_HistoryStartsWithCreated ==
    freeToken # NoToken
    => /\ Len(freeToken.history) >= 1
       /\ freeToken.history[1].action = "created"
       /\ freeToken.history[1].node_id = createdOn
       /\ lastCall.op = "Token"
             => (freeToken.status = ACTIVE /\ Len(freeToken.history) = 1)

\* C16 witness: a token constructed with data was moved off its first node
\* and is no longer ACTIVE, by two calls.
C16_Witness ==
    /\ freeToken # NoToken /\ apiCalls = 2
    /\ freeToken.activity_id # createdOn
    /\ freeToken.status = CANCELLED
    /\ "input_key" \in DOMAIN freeToken.context_data
    /\ freeToken.history[1].node_id = createdOn

\* C17: the history is append-only: move appends exactly "exited" at the old
\* node then "entered" at the new node, sets the current node and leaves the
\* status ACTIVE; the history before any operation is a prefix of the history
\* after it.
C17_HistoryAppendOnly ==
    [][freeToken # NoToken
       => /\ Len(freeToken'.history) >= Len(freeToken.history)
          /\ SubSeq(freeToken'.history, 1, Len(freeToken.history)) = freeToken.history
          /\ lastCall'.op = "Token.move"
                => LET n == Len(freeToken.history)
                   IN /\ Len(freeToken'.history) = n + 2
                      /\ freeToken'.history[n + 1].action = "exited"
                      /\ freeToken'.history[n + 1].node_id = freeToken.activity_id
                      /\ freeToken'.history[n + 2].action = "entered"
                      /\ freeToken'.history[n + 2].node_id = lastCall'.arg
                      /\ freeToken'.activity_id = lastCall'.arg
                      /\ freeToken'.status = ACTIVE]_vars

\* C17 witness: a WAITING token has just been moved to another node.
C17_Witness ==
    /\ lastCall.op = "Token.move"
    /\ Len(freeToken.history) = 4
    /\ freeToken.history[2].action = "status_change:waiting"
    /\ freeToken.history[3].action = "exited"
    /\ freeToken.history[4].node_id # freeToken.history[3].node_id
    /\ freeToken.status = ACTIVE

\* C18: in every token's history the timestamps are strictly increasing, the
\* two entries appended by one move included.
C18_TimestampsStrictlyIncreasing ==
    \A i \in 2..Len(stamps) : stamps[i - 1] < stamps[i]

\* C19: the token created by run(initialData) carries the initial data, every
\* key of the result of a successfully executed activity is in the token's
\* data in the returned snapshot, and an AI activity run without credential
\* leaves the simulated marker there.
C19_SnapshotCarriesResult ==
    (/\ FirstRunEnded
     /\ ActivityIndex(workflow, startActivity) # 0
     /\ workflow.activities[ActivityIndex(workflow, startActivity)].actor_type \notin faultyActors)
    => LET activity == workflow.activities[ActivityIndex(workflow, startActivity)]
           ex == ExecuteActivity(activity, tokens[1], <<>>, hasApiKey, faultyActors)
       IN /\ lastCall.outcome = "returned"
          /\ \A k \in DOMAIN ex.result : k \in DOMAIN tokens[1].context_data
          /\ (activity.actor_type = "ai_agent" /\ ~hasApiKey)
                => "_simulated" \in DOMAIN tokens[1].context_data

\* C20: for the activity a token leaves through an outgoing edge during run,
\* the history holds an "exited" entry for that activity whose analytics
\* field carries the step analytics.
C20_ExitedEntryCarriesAnalytics ==
    (FirstRunEnded /\ startActivity # None /\ FindNextNode(workflow, startActivity) # None)
    => \E k \in DOMAIN tokens[1].history :
          /\ tokens[1].history[k].action = "exited"
          /\ tokens[1].history[k].node_id = startActivity
          /\ "analytics" \in DOMAIN tokens[1].history[k]

\* C21: the analytics recorded for a successfully executed activity, on its
\* "exited" or "status_change:completed" entry, has value_added equal to the
\* value the activity declares, and true when it declares none.
C21_ValueAddedRecorded ==
    (/\ FirstRunEnded
     /\ ActivityIndex(workflow, startActivity) # 0
     /\ workflow.activities[ActivityIndex(workflow, startActivity)].actor_type \notin faultyActors)
    => LET activity == workflow.activities[ActivityIndex(workflow, startActivity)]
           declared == IF activity.value_added \in {"unset", "none"} THEN VBool(TRUE)
                       ELSE [t |-> "bool", v |-> activity.value_added]
       IN \E k \in DOMAIN tokens[1].history :
             /\ tokens[1].history[k].action \in {"exited", "status_change:completed"}
             /\ tokens[1].history[k].node_id = startActivity
             /\ "analytics" \in DOMAIN tokens[1].history[k]
             /\ tokens[1].history[k].analytics.value_added = declared

\* C22: for every non-negative duration, whole seconds included,
\* format_iso_duration returns a string that does not end in a bare "T".
C22_NoBareT ==
    (lastCall.op = "format_iso_duration" /\ lastCall.arg >= 0)
    => SubSeq(lastCall.value, Len(lastCall.value), Len(lastCall.value)) # "T"

\* C23: the start activity is the first activity, in declaration order, that
\* is the target of no edge, and the first declared activity when every
\* activity is a target; the token run creates starts at exactly that
\* activity; run fails with an error only when the workflow declares no
\* activity.
C23_StartActivityChoice ==
    phase = "ready"
    => LET acts == workflow.activities
           IsTarget(i) == \E e \in DOMAIN workflow.edges : workflow.edges[e].target_id = acts[i].id
           IsStart(i) ==
               \/ ~IsTarget(i) /\ \A j \in 1..(i - 1) : IsTarget(j)
               \/ i = 1 /\ \A j \in DOMAIN acts : IsTarget(j)
       IN /\ \A i \in DOMAIN acts : IsStart(i) => startActivity = acts[i].id
          /\ startActivity = None <=> acts = <<>>
          /\ lastCall.op = "run"
                => /\ lastCall.outcome = "raised" => acts = <<>>
                   /\ acts # <<>>
                         => tokens[lastCall.arg].history[1] = HistoryEntry(startActivity, "created")


\* C24: after an activity executed successfully without requiring human
\* action, the token has moved to the target of the first declared edge that
\* leaves the activity, and is COMPLETED exactly when there is no such edge.
C24_MovesAlongFirstEdge ==
    (/\ FirstRunEnded
     /\ ActivityIndex(workflow, startActivity) # 0
     /\ workflow.activities[ActivityIndex(workflow, startActivity)].actor_type
            \notin faultyActors \cup {"human"})
    => LET tok == tokens[1]
           outgoing == {i \in DOMAIN workflow.edges : workflow.edges[i].source_id = startActivity}
       IN IF outgoing = {}
          THEN tok.status = COMPLETED /\ tok.activity_id = startActivity
          ELSE /\ Len(tok.history) >= 3
               /\ tok.history[2] = HistoryEntry(startActivity, "exited")
               /\ tok.history[3].action = "entered"
               /\ tok.history[3].node_id = workflow.edges[FirstIndex(outgoing)].target_id


\* C25: a rule matches exactly when, at every position below both the rule's
\* number of entries and the table's number of columns, the string form of the
\* data under the column's name equals the entry; an absent key is compared as
\* the string form of null; entries beyond the columns are ignored; a rule
\* without entries matches any data.
C25_RuleMatchesByPosition ==
    lastCall.op = "DecisionEvaluator._evaluate_rule"
    => LET entries == lastCall.arg.rule.input_entries
           columns == lastCall.arg.table.inputs
           data == lastCall.arg.context_data
           Text(i) == IF columns[i] \in DOMAIN data THEN data[columns[i]].v ELSE "None"
           Compared == {i \in DOMAIN entries : i <= Len(columns)}
       IN /\ lastCall.value = "True" <=> \A i \in Compared : Text(i) = entries[i]
          /\ entries = <<>> => lastCall.value = "True"

\* C25 witness: a rule with an entry beyond the table's only column matched
\* data in which the column's key is absent, its first entry being "None".
C25_Witness ==
    /\ lastCall.op = "DecisionEvaluator._evaluate_rule" /\ lastCall.value = "True"
    /\ Len(lastCall.arg.rule.input_entries) > Len(lastCall.arg.table.inputs)
    /\ Len(lastCall.arg.table.inputs) = 1
    /\ lastCall.arg.context_data = EmptyDict
    /\ lastCall.arg.rule.input_entries[1] = "None"


\* C27 as stated: a newly constructed engine is IDLE without tokens; every run
\* invocation adds exactly one new token, created ACTIVE at the start activity;
\* no operation removes a token.
C27_EveryRunAddsOneToken ==
    [][/\ (lastCall'.op = "__init__" /\ phase' = "ready")
             => (status' = "idle" /\ tokens' = <<>>)
       /\ lastCall'.op = "run"
             => /\ Len(tokens') = Len(tokens) + 1
                /\ tokens'[Len(tokens')].history[1] = HistoryEntry(startActivity, "created")
       /\ Len(tokens') >= Len(tokens)]_vars

\* C27 amended: a newly constructed engine is IDLE without tokens; a run on an
\* engine that found a start activity adds exactly one new token, created
\* ACTIVE at the start activity, after the tokens already there; a run on a
\* workflow without activities raises and adds none; every other operation
\* keeps the number of tokens and their identities.
C27_RunWithStartAddsOneToken ==
    [][/\ (lastCall'.op = "__init__" /\ phase' = "ready")
             => (status' = "idle" /\ tokens' = <<>>)
       /\ (lastCall'.op = "run" /\ startActivity # None)
             => /\ Len(tokens') = Len(tokens) + 1
                /\ tokens'[Len(tokens')].history[1] = HistoryEntry(startActivity, "created")
                /\ \A i \in DOMAIN tokens : tokens'[Len(tokens')].id # tokens[i].id
       /\ (lastCall'.op = "run" /\ startActivity = None)
             => (lastCall'.outcome = "raised" /\ tokens' = tokens)
       /\ Len(tokens') >= Len(tokens)
       /\ \A i \in DOMAIN tokens : tokens'[i].id = tokens[i].id]_vars

\* C27 witness: run was called again after a resume_token that had merged its
\* output into the first token, and the engine holds two tokens.
C27_Witness ==
    /\ lastCall.op = "run" /\ Len(tokens) = 2
    /\ "approved" \in DOMAIN tokens[1].context_data
    /\ tokens[2].history[1] = HistoryEntry(startActivity, "created")


\* C28: HumanTaskQueue.complete changes only the queue: for an unknown id it
\* returns false and nothing changes; for a known id the task becomes
\* completed; in both cases no token's status, node, history or private data
\* changes, nor the engine's status.
C28_CompleteChangesOnlyQueue ==
    [][lastCall'.op = "HumanTaskQueue.complete"
       => /\ tokens' = tokens
          /\ status' = status
          /\ LET k == TaskIndex(humanTasks, lastCall'.arg)
             IN IF k = 0
                THEN lastCall'.value = "False" /\ humanTasks' = humanTasks
                ELSE /\ lastCall'.value = "True"
                     /\ humanTasks'[k].status = "completed"
                     /\ \A j \in DOMAIN humanTasks : j # k => humanTasks'[j] = humanTasks[j]]_vars


\* C29: every move the engine makes follows an edge out of the token's current
\* node: when a run appends "exited" at X immediately followed by "entered" at
\* Y, the workflow declares an edge from X to Y, also when X is a decision node.
C29_MovesFollowEdges ==
    [][lastCall'.op = "run"
       => \A i \in DOMAIN tokens :
             LET h == tokens'[i].history
             IN \A k \in (Len(tokens[i].history) + 1)..(Len(h) - 1) :
                   (h[k].action = "exited" /\ h[k + 1].action = "entered")
                   => \E e \in DOMAIN workflow.edges :
                         /\ workflow.edges[e].source_id = h[k].node_id
                         /\ workflow.edges[e].target_id = h[k + 1].node_id]_vars


\* C30: for a decision node that declares a default edge, evaluate always
\* returns an edge identity; it returns nothing only when no rule matches and
\* no default is declared, also when the first matching rule names no edge.
C30_DefaultAlwaysGivesEdge ==
    lastCall.op = "DecisionEvaluator.evaluate"
    => LET node == lastCall.arg.node
           Matches(k) == \A i \in DOMAIN node.rules[k].input_entries :
                            i <= Len(node.inputs)
                            => Str(DictGet(lastCall.arg.context_data, node.inputs[i]))
                                  = node.rules[k].input_entries[i]
       IN /\ node.default_output_edge_id # None => lastCall.value # None
          /\ lastCall.value = None
                => /\ node.default_output_edge_id = None
                   /\ \A k \in DOMAIN node.rules : ~Matches(k)

====
